---- MODULE Spec2Model ----
(***************************************************************************)
(* Roger's Restaurant service worker (sw.js): the install, activate and    *)
(* fetch handlers over the browser's CacheStorage, as a state machine.     *)
(* Every promise callback of the handlers is one step; the browser's side  *)
(* (lifecycle transitions, network outcomes, Cache API outcomes) is the    *)
(* environment and is chosen nondeterministically.                         *)
(***************************************************************************)
EXTENDS Integers, Sequences, FiniteSets, Bags, TLC

\* ------------------------------------------------------------------ bounds
\* Number of fetch events dispatched to the worker in one run.
MaxReq == 2
\* Number of distinct bodies the network can serve for one URL.
MaxVer == 2
\* Number of fetch events in one run of the specification with messages.
MaxReqAll == 1
\* Number of resize events, of orientation changes, of calls of the debounced
\* function and of passages of time in one run of the page.
MaxResize == 2
MaxOrient == 1
MaxCalls == 2
MaxAdvance == 7
\* Largest maxRetries a caller passes to retryRequest.
MaxRetries == 3
\* Latest reading of Date.now() in a run of CacheManager (the first is 1).
MaxClock == 3

\* --------------------------------------------------------------- constants
CACHE_NAME == "rogers-restaurant-v2"
STATIC_CACHE == "rogers-static-v2"
DYNAMIC_CACHE == "rogers-dynamic-v2"

STATIC_ASSETS ==
  { "./", "./rogers.html", "./images/logo.jpg", "./images/ovenwings.jpg",
    "./images/pexels-zain-ali-549209752-27645103.jpg", "./images/rogers1.mp4" }

EXTERNAL_RESOURCES ==
  { "https://fonts.googleapis.com/css2",
    "https://unpkg.com/react@17/umd/react.production.min.js",
    "https://unpkg.com/react-dom@17/umd/react-dom.production.min.js",
    "https://unpkg.com/@babel/standalone/babel.min.js" }

\* Partitions left behind by the previous version of the worker.
OLD_STATIC == "rogers-static-v1"
OLD_DYNAMIC == "rogers-dynamic-v1"
\* The partition the page's CacheManager.cacheAPI opens.
PAGE_CACHE == "rogers-dynamic"
CacheNamesU == { STATIC_CACHE, DYNAMIC_CACHE, OLD_STATIC, OLD_DYNAMIC, PAGE_CACHE }

\* The requests a controlled page issues: request.url, request.method,
\* request.destination, and whether url.origin equals the worker's origin.
PageRequests ==
  { [url |-> "./rogers.html", method |-> "GET", dest |-> "document", same |-> TRUE],
    [url |-> "./menu-item.jpg", method |-> "GET", dest |-> "image", same |-> TRUE],
    [url |-> "./order", method |-> "POST", dest |-> "", same |-> TRUE],
    [url |-> "https://unpkg.com/react@17/umd/react.production.min.js",
     method |-> "GET", dest |-> "script", same |-> FALSE],
    [url |-> "https://images.example.com/dish.jpg", method |-> "GET",
     dest |-> "image", same |-> FALSE] }

URLs == STATIC_ASSETS \cup EXTERNAL_RESOURCES \cup { r.url : r \in PageRequests }

\* ---------------------------------------------------------------- responses
NoResp == [kind |-> "none", status |-> 0, ver |-> 0]
\* The value a promise chain yields when a callback returns nothing.
Undefined == [kind |-> "undefined", status |-> 0, ver |-> 0]
NetResp(s, v) == [kind |-> "network", status |-> s, ver |-> v]
\* new Response('', { status: 404 })
SyntheticResp == [kind |-> "synthetic", status |-> 404, ver |-> 0]

EmptyStore == [u \in URLs |-> NoResp]

\* A Response the page made itself and hands to CacheManager.cacheAPI.set.
PageResponse == [kind |-> "page", status |-> 200, ver |-> 0]

\* The page has not called CacheManager.cacheAPI.set.
NoPageCall == [pc |-> "idle", key |-> "", cache |-> "", stored |-> FALSE]

\* navigator as the page sees it: connection.effectiveType ("undefined" when
\* navigator has no connection object), deviceMemory and hardwareConcurrency
\* (0 when the browser does not provide the property).
Navigators ==
  [ effectiveType : { "undefined", "slow-2g", "2g", "3g", "4g" },
    deviceMemory : { 0, 1, 2, 4, 8 }, hardwareConcurrency : { 0, 1, 2, 4, 8 } ]

\* initializeAdaptiveLoading has not run.
NotRun == [pc |-> "idle", deviceTier |-> "", settings |-> << >>,
           animationDuration |-> "", imagesReduced |-> FALSE]

\* The window when the page's scripts start: time 0.
WinStart == [now |-> 0, viewport |-> [w |-> 1024, h |-> 768]]
\* The DOM before new ResponsiveManager(): no timer, nothing written yet.
NoManagerWith(classes) ==
  [pc |-> "none", currentBreakpoint |-> "", dataBreakpoint |-> "",
   bodyClasses |-> classes, gridColumns |-> "", menuHeight |-> "",
   timeout |-> -1, timers |-> {}, orientTimers |-> {}]
\* No resize event and no detectBreakpoint run yet.
NoResizes == [events |-> 0, lastAt |-> -1, bursts |-> 0, orients |-> 0, runs |-> << >>,
              detects |-> 0, detectedWidth |-> -1]
\* No timer: the value of an id variable that is undefined or null.
NoTimer == [due |-> -1, args |-> ""]
\* PerformanceUtils.debounce has not been called.
NoDebounce == [pc |-> "none", immediate |-> FALSE, wait |-> 0, timeout |-> NoTimer,
               timers |-> {}, calls |-> 0, lastAt |-> -1, lastArg |-> "", bursts |-> 0,
               invoked |-> << >>]
\* The img elements of the page: src and whether the element lies in the
\* viewport (its getBoundingClientRect against the window).
PageImages == { "hero", "dish" }
\* performance.memory (absent outside Chromium: hasMemory FALSE), in MB, the
\* images, and the last call of MemoryManager.cleanup.
MemoryWith(hasMemory, used, inside) ==
  [hasMemory |-> hasMemory, used |-> used, limit |-> 100,
   images |-> [ i \in PageImages |-> [src |-> "img.jpg", inViewport |-> i \in inside] ],
   last |-> [called |-> FALSE, high |-> FALSE, threw |-> FALSE, before |-> << >>]]
\* The img elements setupImageErrorHandling can see: one served by
\* pexels.com and one by the site itself.
ErrorImages == { "pexels", "local" }
\* An img element: whether it is in the document (parentNode), its
\* data-error-handled mark and error listeners, its load state (complete and
\* naturalHeight), its pending 5-second timer, and what its error listener did.
NewImage(inDocument) ==
  [inDocument |-> inDocument, errorHandled |-> FALSE, listeners |-> 0,
   load |-> "loading", timer |-> FALSE, fallbacks |-> 0, errors |-> 0, threw |-> 0]
\* The page before initializeImageErrorHandling: no observer.
ImagesAt(inDocument) ==
  [observing |-> FALSE, img |-> [ i \in ErrorImages |-> NewImage(i \in inDocument) ]]
\* The img[data-src] elements of the page and the data-src each was given.
LazyImages == { "burger", "pizza" }
OriginalDataSrc(i) == "images/" \o i \o ".jpg"
\* Where an element can lie: below the window, partly inside (it intersects
\* the viewport, its top is above the window's bottom edge) or fully inside.
Positions == { "below", "partial", "inside" }
\* A lazy image before any loader touched it: a placeholder src, data-src
\* present, not observed.
NewLazyImage(i, position) ==
  [src |-> "placeholder.gif", hasDataSrc |-> TRUE, dataSrc |-> OriginalDataSrc(i),
   position |-> position, observed |-> FALSE, listed |-> FALSE]
\* The page before ImageOptimizer.initLazyLoading ran.
LazyAt(positions) ==
  [loader |-> "none", timer |-> FALSE,
   img |-> [ i \in LazyImages |-> NewLazyImage(i, positions[i]) ]]
\* NetworkUtils.retryRequest has not been called.
NoRetry == [pc |-> "none", maxRetries |-> 0, delay |-> 0, i |-> 0, outcomes |-> << >>,
            waits |-> << >>, result |-> [kind |-> "none", attempt |-> 0]]
\* JavaScript values by type: "string" (s), "number" (finite, n), "NaN",
\* "Infinity", "null", "undefined".
Js(t, n, s) == [t |-> t, n |-> n, s |-> s]
JsNull == Js("null", 0, "")
JsUndefined == Js("undefined", 0, "")

\* The localStorage keys the page uses with CacheManager.
StorageKeys == { "cache_menu", "cache_cart", "menu" }
\* localStorage.getItem of a key that is not stored; no call of CacheManager yet.
NoItem == [stored |-> FALSE, value |-> "", expiry |-> ""]
NoCall == [op |-> "none", key |-> "", result |-> JsUndefined]
\* An empty localStorage and the clock at its first reading.
NoStorage == [now |-> 1, items |-> [k \in StorageKeys |-> NoItem],
              lastSet |-> [k \in StorageKeys |->
                            [set |-> FALSE, value |-> JsUndefined, at |-> 0,
                             ttl |-> JsUndefined]],
              call |-> NoCall]

\* No message event has been handled yet.
NoMessage == [data |-> "none", port |-> FALSE, skipWaitingCalls |-> 0,
              replies |-> << >>, threw |-> FALSE]

VARIABLES
  cacheKeys,        \* CacheStorage: names of the existing partitions, in creation order
  store,            \* CacheStorage: name -> URL -> stored response (NoResp = no entry)
  swState,          \* ServiceWorker.state of this version
  installPc,        \* position of the install handler's promise chain
  installPromise,   \* the promise handed to the install event's waitUntil
  staticFetchFailed,    \* some fetch of cache.addAll(STATIC_ASSETS) failed
  externalFetchFailed,  \* some fetch of cache.addAll(EXTERNAL_RESOURCES) failed
  atInstall,        \* CacheStorage as it was when the install event fired
  skipWaitingFlag,  \* self.skipWaiting() has been called
  activatePc,       \* position of the activate handler's promise chain
  toDelete,         \* caches.delete calls of the activate handler still pending
  claimed,          \* self.clients.claim() has been called
  atActivate,       \* CacheStorage as it was when the activate event fired
  reqs,             \* the fetch events dispatched so far: a bag of records
  lastMsg,          \* the last message event the worker handled, with what it did
  pageCall,         \* position of the page's CacheManager.cacheAPI.set call
  navigator,        \* the page's navigator: connection, deviceMemory, cores
  adaptive,         \* what initializeAdaptiveLoading computed and applied
  win,              \* the page's window: the time in ms and the viewport
  rm,               \* the ResponsiveManager, its timers and the DOM it writes
  resizeLog,        \* history of resize events and of detectBreakpoint runs
  deb,              \* a function made by PerformanceUtils.debounce and its calls
  mem,              \* performance.memory, the images and MemoryManager.cleanup
  imgErr,           \* the images under setupImageErrorHandling
  lazy,             \* an img[data-src] under the two lazy loaders
  retry,            \* a call of NetworkUtils.retryRequest
  ls                \* localStorage and the calls of CacheManager on it

vars == << cacheKeys, store, swState, installPc, installPromise, staticFetchFailed,
           externalFetchFailed, atInstall, skipWaitingFlag, activatePc, toDelete,
           claimed, atActivate, reqs, lastMsg, pageCall, navigator, adaptive,
           win, rm, resizeLog, deb, mem, imgErr, lazy, retry, ls >>

\* State outside the install, activate and fetch handlers.
tierVars == << navigator, adaptive >>
respVars == << win, rm, resizeLog, deb >>
pageVars == << respVars, mem, imgErr, lazy, retry, ls >>
restVars == << lastMsg, pageCall, tierVars, pageVars >>

lifecycleVars == << swState, installPc, installPromise, staticFetchFailed,
                    externalFetchFailed, atInstall, skipWaitingFlag, activatePc,
                    toDelete, claimed, atActivate >>

\* ------------------------------------------------------------ CacheStorage
Exists(n) == \E i \in 1..Len(cacheKeys) : cacheKeys[i] = n

\* caches.open(name): creates the partition when it is absent.
KeysAfterOpen(n) == IF Exists(n) THEN cacheKeys ELSE Append(cacheKeys, n)

\* caches.delete(name)
KeysAfterDelete(n) == SelectSeq(cacheKeys, LAMBDA k : k # n)

AddAllAfterClearing(st, urls, failed) ==
  IF failed \cap urls = {}
    THEN [u \in URLs |-> IF u \in urls THEN NetResp(200, 1) ELSE NoResp]
    ELSE EmptyStore

\* cache.addAll(urls) with the set of URLs whose fetch failed: all or nothing.
AddAll(st, urls, failed) ==
  IF failed \cap urls = {}
    THEN [u \in URLs |-> IF u \in urls THEN NetResp(200, 1) ELSE st[u]]
    ELSE st

\* caches.match(request): the first partition, in creation order, holding the URL.
RECURSIVE MatchFrom(_, _)
MatchFrom(i, u) ==
  IF i > Len(cacheKeys) THEN NoResp
  ELSE IF store[cacheKeys[i]][u] # NoResp THEN store[cacheKeys[i]][u]
  ELSE MatchFrom(i + 1, u)

CachesMatchNever(u) == NoResp

CachesMatchStaticOnly(u) == IF Exists(STATIC_CACHE) THEN store[STATIC_CACHE][u] ELSE NoResp

CachesMatchDynamicOnly(u) ==
  IF Exists(DYNAMIC_CACHE) THEN store[DYNAMIC_CACHE][u] ELSE NoResp

CachesMatch(u) == MatchFrom(1, u)

Snapshot == [keys |-> cacheKeys, store |-> store]

\* ------------------------------------------------------------------- Init
\* The worker script has been parsed and is about to be installed.  The origin
\* either has no partitions, or the partitions of the previous version (v1),
\* or the partitions of an earlier install of this same version.
OldStaticStore == [u \in URLs |-> IF u \in STATIC_ASSETS THEN NetResp(200, 1) ELSE NoResp]
OldDynamicStore == [u \in URLs |-> IF u = "./menu-item.jpg" THEN NetResp(200, 1) ELSE NoResp]

InitCaches(prior) ==
  CASE prior = "none" ->
         [keys |-> << >>, store |-> [n \in CacheNamesU |-> EmptyStore]]
    [] prior = "old" ->
         [keys |-> << OLD_STATIC, OLD_DYNAMIC >>,
          store |-> [n \in CacheNamesU |->
                       IF n = OLD_STATIC THEN OldStaticStore
                       ELSE IF n = OLD_DYNAMIC THEN OldDynamicStore
                       ELSE EmptyStore]]
    [] prior = "same" ->
         [keys |-> << STATIC_CACHE, DYNAMIC_CACHE >>,
          store |-> [n \in CacheNamesU |->
                       IF n = STATIC_CACHE THEN AddAll(EmptyStore, STATIC_ASSETS, {})
                       ELSE IF n = DYNAMIC_CACHE
                         THEN AddAll(EmptyStore, EXTERNAL_RESOURCES, {})
                       ELSE EmptyStore]]

InitWorkerFrom(prior) ==
    /\ cacheKeys = InitCaches(prior).keys
    /\ store = InitCaches(prior).store
    /\ swState = "parsed"
    /\ installPc = "idle"
    /\ installPromise = "none"
    /\ staticFetchFailed = FALSE
    /\ externalFetchFailed = FALSE
    /\ atInstall = [keys |-> << >>, store |-> [n \in CacheNamesU |-> EmptyStore]]
    /\ skipWaitingFlag = FALSE
    /\ activatePc = "idle"
    /\ toDelete = {}
    /\ claimed = FALSE
    /\ atActivate = [keys |-> << >>, store |-> [n \in CacheNamesU |-> EmptyStore]]
    /\ reqs = EmptyBag
    /\ lastMsg = NoMessage
    /\ pageCall = NoPageCall

InitWorker == \E prior \in { "none", "old", "same" } : InitWorkerFrom(prior)

\* The page before any of its scripts has run.
TierIdle ==
  /\ navigator = [effectiveType |-> "4g", deviceMemory |-> 8, hardwareConcurrency |-> 8]
  /\ adaptive = NotRun
ResponsiveIdle ==
  /\ win = WinStart /\ rm = NoManagerWith({}) /\ resizeLog = NoResizes /\ deb = NoDebounce
\* The page's other scripts before they run: heap at half its limit and both
\* images in view, every img in the document, every lazy image below the
\* window, no retryRequest call, an empty localStorage.
MemoryIdle == mem = MemoryWith(TRUE, 50, PageImages)
ImagesIdle == imgErr = ImagesAt(ErrorImages)
LazyIdle == lazy = LazyAt([ i \in LazyImages |-> "below" ])
RestIdle == retry = NoRetry /\ ls = NoStorage

\* State of the worker's handlers only.
workerVars == << cacheKeys, store, lifecycleVars, reqs, lastMsg, pageCall, tierVars >>

Init ==
  /\ InitWorker
  /\ TierIdle /\ ResponsiveIdle /\ MemoryIdle /\ ImagesIdle /\ LazyIdle /\ RestIdle

\* --------------------------------------------------------- install handler
\* The install event fires: the handler calls caches.open(STATIC_CACHE) and
\* hands the promise chain to event.waitUntil.
InstallEvent ==
  /\ swState = "parsed"
  /\ swState' = "installing"
  /\ installPc' = "openStatic"
  /\ installPromise' = "pending"
  /\ atInstall' = Snapshot
  /\ UNCHANGED << cacheKeys, store, staticFetchFailed, externalFetchFailed,
                  skipWaitingFlag, activatePc, toDelete, claimed, atActivate, reqs, restVars >>

\* caches.open(STATIC_CACHE) resolves; the callback calls cache.addAll(STATIC_ASSETS).
InstallOpenStatic ==
  /\ installPc = "openStatic"
  /\ cacheKeys' = KeysAfterOpen(STATIC_CACHE)
  /\ installPc' = "addStatic"
  /\ UNCHANGED << store, swState, installPromise, staticFetchFailed,
                  externalFetchFailed, atInstall, skipWaitingFlag, activatePc,
                  toDelete, claimed, atActivate, reqs, restVars >>

InstallOutcomeWithoutCatch == "rejected"

\* How the waitUntil promise settles when a step of the chain rejects: the
\* trailing .catch logs the error and returns nothing, so the chain fulfils.
InstallOutcomeOnRejection == "fulfilled"

\* cache.addAll(STATIC_ASSETS) settles.  On success the next callback calls
\* caches.open(DYNAMIC_CACHE).
InstallAddStatic ==
  /\ installPc = "addStatic"
  /\ \E failed \in SUBSET STATIC_ASSETS :
       /\ store' = [store EXCEPT ![STATIC_CACHE] = AddAll(@, STATIC_ASSETS, failed)]
       /\ staticFetchFailed' = (failed # {})
       /\ installPc' = IF failed = {} THEN "openDynamic" ELSE "caught"
  /\ UNCHANGED << cacheKeys, swState, installPromise, externalFetchFailed, atInstall,
                  skipWaitingFlag, activatePc, toDelete, claimed, atActivate, reqs, restVars >>

\* caches.open(DYNAMIC_CACHE) resolves; the callback calls
\* cache.addAll(EXTERNAL_RESOURCES).
InstallOpenDynamic ==
  /\ installPc = "openDynamic"
  /\ cacheKeys' = KeysAfterOpen(DYNAMIC_CACHE)
  /\ installPc' = "addExternal"
  /\ UNCHANGED << store, swState, installPromise, staticFetchFailed,
                  externalFetchFailed, atInstall, skipWaitingFlag, activatePc,
                  toDelete, claimed, atActivate, reqs, restVars >>

\* cache.addAll(EXTERNAL_RESOURCES) settles.  On success the next callback
\* returns self.skipWaiting().
InstallAddExternal ==
  /\ installPc = "addExternal"
  /\ \E failed \in SUBSET EXTERNAL_RESOURCES :
       /\ store' = [store EXCEPT ![DYNAMIC_CACHE] = AddAll(@, EXTERNAL_RESOURCES, failed)]
       /\ externalFetchFailed' = (failed # {})
       /\ installPc' = IF failed = {} THEN "skipWaiting" ELSE "caught"
  /\ UNCHANGED << cacheKeys, swState, installPromise, staticFetchFailed, atInstall,
                  skipWaitingFlag, activatePc, toDelete, claimed, atActivate, reqs, restVars >>

\* self.skipWaiting() is called and its promise resolves: the chain fulfils.
InstallSkipWaiting ==
  /\ installPc = "skipWaiting"
  /\ skipWaitingFlag' = TRUE
  /\ installPc' = "settled"
  /\ installPromise' = "fulfilled"
  /\ UNCHANGED << cacheKeys, store, swState, staticFetchFailed, externalFetchFailed,
                  atInstall, activatePc, toDelete, claimed, atActivate, reqs, restVars >>

\* A step rejected: control reaches the end of the chain (console.error in
\* the .catch callback) and the waitUntil promise settles.
InstallCatch ==
  /\ installPc = "caught"
  /\ installPc' = "settled"
  /\ installPromise' = InstallOutcomeOnRejection
  /\ UNCHANGED << cacheKeys, store, swState, staticFetchFailed, externalFetchFailed,
                  atInstall, skipWaitingFlag, activatePc, toDelete, claimed,
                  atActivate, reqs, restVars >>

\* The browser ends the install phase: the worker becomes installed when the
\* waitUntil promise fulfilled and redundant when it rejected.
InstallSettled ==
  /\ swState = "installing"
  /\ installPromise \in { "fulfilled", "rejected" }
  /\ swState' = IF installPromise = "fulfilled" THEN "installed" ELSE "redundant"
  /\ UNCHANGED << cacheKeys, store, installPc, installPromise, staticFetchFailed,
                  externalFetchFailed, atInstall, skipWaitingFlag, activatePc,
                  toDelete, claimed, atActivate, reqs, restVars >>

\* -------------------------------------------------------- activate handler
IsStaleKeepsStaticOnly(cacheName) == cacheName # STATIC_CACHE

\* The test of the activate handler's map callback.
IsStale(cacheName) == cacheName # STATIC_CACHE /\ cacheName # DYNAMIC_CACHE

\* The browser activates the installed worker (at once after skipWaiting, else
\* when no page is controlled by an older version) and fires the activate
\* event: the handler calls caches.keys().
ActivateEvent ==
  /\ swState = "installed"
  /\ swState' = "activating"
  /\ activatePc' = "keys"
  /\ atActivate' = Snapshot
  /\ UNCHANGED << cacheKeys, store, installPc, installPromise, staticFetchFailed,
                  externalFetchFailed, atInstall, skipWaitingFlag, toDelete, claimed,
                  reqs, restVars >>

\* caches.keys() resolves: the callback starts caches.delete for every stale
\* name and waits for all of them (Promise.all).
ActivateKeys ==
  /\ activatePc = "keys"
  /\ toDelete' = { cacheKeys[i] : i \in { j \in 1..Len(cacheKeys) : IsStale(cacheKeys[j]) } }
  /\ activatePc' = "deleting"
  /\ UNCHANGED << cacheKeys, store, swState, installPc, installPromise,
                  staticFetchFailed, externalFetchFailed, atInstall, skipWaitingFlag,
                  claimed, atActivate, reqs, restVars >>

\* One caches.delete(cacheName) completes.
ActivateDelete ==
  /\ activatePc \in { "deleting", "settled" }
  /\ \E n \in toDelete :
       /\ cacheKeys' = KeysAfterDelete(n)
       /\ store' = [store EXCEPT ![n] = EmptyStore]
       /\ toDelete' = toDelete \ { n }
  /\ UNCHANGED << swState, installPc, installPromise, staticFetchFailed,
                  externalFetchFailed, atInstall, skipWaitingFlag, activatePc, claimed,
                  atActivate, reqs, restVars >>

ClaimWithoutWaiting == FALSE

\* The map callback returns each caches.delete promise and the first callback
\* returns Promise.all of them, so the next callback runs after every delete.
ClaimWaitsForDeletes == TRUE

\* Promise.all resolved: the callback returns self.clients.claim(); the
\* waitUntil promise fulfils and the worker becomes activated.
ActivateClaim ==
  /\ activatePc = "deleting"
  /\ ClaimWaitsForDeletes => toDelete = {}
  /\ claimed' = TRUE
  /\ activatePc' = "settled"
  /\ swState' = "activated"
  /\ UNCHANGED << cacheKeys, store, installPc, installPromise, staticFetchFailed,
                  externalFetchFailed, atInstall, skipWaitingFlag, toDelete, atActivate,
                  reqs, restVars >>

\* ----------------------------------------------------------- fetch handler
InterceptsEveryMethod(request) == TRUE

\* "Skip non-GET requests": the handler returns before respondWith otherwise.
Intercepts(request) == request.method = "GET"

HasCatchInBothBranches(request) == TRUE

HasCatchInNeitherBranch(request) == FALSE

\* Which branch has a .catch on the network fetch: the cross-origin one only.
HasCatch(request) == ~request.same

FallbackWrongDestination(request) ==
  IF request.dest = "img" THEN SyntheticResp ELSE Undefined

\* The value the .catch callback returns.
Fallback(request) == IF request.dest = "image" THEN SyntheticResp ELSE Undefined

ShouldCacheAnyResponse(fetchResponse) == fetchResponse.kind = "network"

\* "Cache successful responses": fetchResponse && fetchResponse.status === 200
ShouldCache(fetchResponse) == fetchResponse.status = 200

AwaitsWriteReturned == TRUE

\* The cache write is started and not returned from the callback, so the
\* response promise does not wait for it.
AwaitsWrite == FALSE

\* The entries the existing partitions hold for the URL.
Entries(u) == { store[cacheKeys[i]][u] : i \in 1..Len(cacheKeys) } \ { NoResp }

NewRequest(request) ==
  [ req |-> request,
    respondWith |-> FALSE,     \* event.respondWith was called
    lookup |-> "none",         \* caches.match: none, pending, hit, miss
    lookups |-> 0,             \* number of caches.match calls
    entriesAtLookup |-> {},    \* the entries for the URL when caches.match resolved
    fetches |-> 0,             \* number of fetch(request) calls
    net |-> "none",            \* fetch(request): none, pending, rejected, responded
    netResp |-> NoResp,        \* the response fetch(request) resolved with
    promise |-> "none",        \* the promise given to respondWith
    resp |-> NoResp,           \* the value that promise fulfilled with
    write |-> "none",          \* none, opening, putting, ok, failed
    writeSeq |-> 0,            \* its cache.put completed as the n-th put of this URL
    cachedBefore |-> FALSE ]   \* a write of this URL had completed at dispatch

\* The fetch events are independent of one another: they are kept as a bag of
\* their records (two events may be in the same position).
Events == BagToSet(reqs)
Replace(old, new) == (reqs (-) SetToBag({ old })) (+) SetToBag({ new })

\* A controlled page issues a request, at most max of them in a run: the fetch
\* event listener runs.
Dispatch(max) ==
  /\ swState = "activated"
  /\ BagCardinality(reqs) < max
  /\ \E request \in PageRequests :
       LET r == [ NewRequest(request) EXCEPT
                    !.cachedBefore = \E e \in Events :
                                       e.req.url = request.url /\ e.write = "ok" ]
       IN reqs' = reqs (+) SetToBag({
                    IF Intercepts(request)
                      THEN [ r EXCEPT !.respondWith = TRUE, !.lookup = "pending",
                                      !.lookups = 1, !.promise = "pending" ]
                      ELSE r })
  /\ UNCHANGED << cacheKeys, store, lifecycleVars, restVars >>

FetchEvent == Dispatch(MaxReq)

\* caches.match(request) resolves: a hit is returned, a miss calls fetch(request).
MatchResolve ==
  /\ \E e \in Events :
       /\ e.lookup = "pending"
       /\ LET found == CachesMatch(e.req.url)
              seen == [ e EXCEPT !.entriesAtLookup = Entries(e.req.url) ]
          IN reqs' = Replace(e,
                       IF found # NoResp
                         THEN [ seen EXCEPT !.lookup = "hit", !.promise = "fulfilled",
                                            !.resp = found ]
                         ELSE [ seen EXCEPT !.lookup = "miss", !.net = "pending",
                                            !.fetches = @ + 1 ])
  /\ UNCHANGED << cacheKeys, store, lifecycleVars, restVars >>

\* fetch(request) rejects (offline, DNS failure, blocked).  Without a .catch
\* the rejection is the response promise's; with one the promise fulfils with
\* the callback's value.
NetReject ==
  /\ \E e \in Events :
       /\ e.net = "pending"
       /\ reqs' = Replace(e,
                    IF HasCatch(e.req)
                      THEN [ e EXCEPT !.net = "rejected", !.promise = "fulfilled",
                                      !.resp = Fallback(e.req) ]
                      ELSE [ e EXCEPT !.net = "rejected", !.promise = "rejected" ])
  /\ UNCHANGED << cacheKeys, store, lifecycleVars, restVars >>

\* The responses the network can give: a 200 with one of the bodies, or a 404.
NetResponses == { NetResp(200, v) : v \in 1..MaxVer } \cup { NetResp(404, 0) }

\* fetch(request) resolves with a response: a 200 response is cloned and
\* caches.open(DYNAMIC_CACHE) is called; the response is returned.
NetRespond ==
  /\ \E e \in Events, fetchResponse \in NetResponses :
       /\ e.net = "pending"
       /\ LET got == [ e EXCEPT !.net = "responded", !.netResp = fetchResponse,
                         !.write = IF ShouldCache(fetchResponse) THEN "opening" ELSE @ ]
          IN reqs' = Replace(e,
                       IF ShouldCache(fetchResponse) /\ AwaitsWrite
                         THEN got
                         ELSE [ got EXCEPT !.promise = "fulfilled",
                                           !.resp = fetchResponse ])
  /\ UNCHANGED << cacheKeys, store, lifecycleVars, restVars >>

\* What a response promise that waits for the write does once the write settles.
AfterWrite(e, ok) ==
  IF e.promise = "pending"
    THEN IF ok THEN [ e EXCEPT !.promise = "fulfilled", !.resp = e.netResp ]
         ELSE [ e EXCEPT !.promise = "rejected" ]
    ELSE e

\* caches.open(DYNAMIC_CACHE) resolves, creating the partition when it is
\* absent: the callback calls cache.put(request, responseClone).
WriteOpen ==
  /\ \E e \in Events :
       /\ e.write = "opening"
       /\ cacheKeys' = KeysAfterOpen(DYNAMIC_CACHE)
       /\ reqs' = Replace(e, [ e EXCEPT !.write = "putting" ])
  /\ UNCHANGED << store, lifecycleVars, restVars >>

CachePutKeepsFirst(st, u, r) == IF st[u] # NoResp THEN st ELSE [ st EXCEPT ![u] = r ]

CachePutEvictsOthers(st, u, r) == [ x \in URLs |-> IF x = u THEN r ELSE NoResp ]

\* cache.put(request, response) on a partition: the entry of the URL is replaced.
CachePut(st, u, r) == [ st EXCEPT ![u] = r ]

\* The events whose cache.put of the URL has completed.
Writers(u) == { x \in Events : x.req.url = u /\ x.write = "ok" }

\* cache.put(request, responseClone) completes: the entry for the URL is replaced.
WriteDone ==
  /\ \E e \in Events :
       /\ e.write = "putting"
       /\ store' = [ store EXCEPT
                      ![DYNAMIC_CACHE] = CachePut(@, e.req.url, e.netResp) ]
       /\ reqs' = Replace(e, AfterWrite([ e EXCEPT !.write = "ok",
                                !.writeSeq = Cardinality(Writers(e.req.url)) + 1 ], TRUE))
  /\ UNCHANGED << cacheKeys, lifecycleVars, restVars >>

\* cache.put rejects (quota exceeded, a Vary: * response): nobody observes the
\* rejection.
WriteFail ==
  /\ \E e \in Events :
       /\ e.write = "putting"
       /\ reqs' = Replace(e, AfterWrite([ e EXCEPT !.write = "failed" ], FALSE))
  /\ UNCHANGED << cacheKeys, store, lifecycleVars, restVars >>

\* --------------------------------------------------------- message handler
\* The messages a page posts to the worker: event.data (null, or an object
\* with a type) and whether a reply port came with it (event.ports[0]).
Messages ==
  { [data |-> "null", port |-> FALSE],
    [data |-> "SKIP_WAITING", port |-> FALSE],
    [data |-> "GET_VERSION", port |-> TRUE],
    [data |-> "GET_VERSION", port |-> FALSE],
    [data |-> "PING", port |-> TRUE] }

\* event.data && event.data.type === 'SKIP_WAITING'
CallsSkipWaiting(m) == m.data = "SKIP_WAITING"

RepliesToAnyType(m) == m.data # "null"

\* event.data && event.data.type === 'GET_VERSION'
RepliesTo(m) == m.data = "GET_VERSION"

\* { version: CACHE_NAME }
VersionReply == [version |-> CACHE_NAME]

\* A message event is dispatched to the worker and the listener runs:
\* self.skipWaiting() for the one type, event.ports[0].postMessage for the
\* other (a TypeError when no port came with the message).
MessageEvent ==
  /\ swState \in { "installing", "installed", "activating", "activated" }
  /\ \E m \in Messages :
       /\ skipWaitingFlag' = (skipWaitingFlag \/ CallsSkipWaiting(m))
       /\ lastMsg' = [ data |-> m.data, port |-> m.port,
                       skipWaitingCalls |-> IF CallsSkipWaiting(m) THEN 1 ELSE 0,
                       replies |-> IF RepliesTo(m) /\ m.port
                                     THEN << VersionReply >> ELSE << >>,
                       threw |-> RepliesTo(m) /\ ~m.port ]
  /\ UNCHANGED << cacheKeys, store, swState, installPc, installPromise,
                  staticFetchFailed, externalFetchFailed, atInstall, activatePc,
                  toDelete, claimed, atActivate, reqs, pageCall, tierVars, pageVars >>

\* ------------------------------------------- page: CacheManager.cacheAPI
\* The page calls CacheManager.cacheAPI.set(key, response); 'caches' in window
\* holds, so caches.open('rogers-dynamic') is called.
CacheAPISet ==
  /\ pageCall.pc = "idle"
  /\ \E key \in URLs :
       pageCall' = [pc |-> "opening", key |-> key, cache |-> PAGE_CACHE, stored |-> FALSE]
  /\ UNCHANGED << cacheKeys, store, lifecycleVars, reqs, lastMsg, tierVars, pageVars >>

\* caches.open resolves (creating the partition when absent); cache.put(key,
\* response) is called.
CacheAPIOpen ==
  /\ pageCall.pc = "opening"
  /\ cacheKeys' = KeysAfterOpen(pageCall.cache)
  /\ pageCall' = [ pageCall EXCEPT !.pc = "putting" ]
  /\ UNCHANGED << store, lifecycleVars, reqs, lastMsg, tierVars, pageVars >>

\* cache.put completes.  When the partition was deleted after it was opened,
\* the entry goes to a cache no name leads to any more.
CacheAPIPut ==
  /\ pageCall.pc = "putting"
  /\ store' = IF Exists(pageCall.cache)
                THEN [ store EXCEPT ![pageCall.cache] = CachePut(@, pageCall.key, PageResponse) ]
                ELSE store
  /\ pageCall' = [ pageCall EXCEPT !.pc = "done", !.stored = Exists(pageCall.cache) ]
  /\ UNCHANGED << cacheKeys, lifecycleVars, reqs, lastMsg, tierVars, pageVars >>

\* -------------------------------------------------- page: adaptive loading
\* navigator.deviceMemory || 4, navigator.hardwareConcurrency || 4
OrFour(v) == IF v = 0 THEN 4 ELSE v

\* PerformanceUtils.getDeviceTier()
getDeviceTier(nav) ==
  LET memory == OrFour(nav.deviceMemory)
      cores == OrFour(nav.hardwareConcurrency)
  IN IF nav.effectiveType = "4g" /\ memory >= 4 /\ cores >= 4 THEN "high"
     ELSE IF nav.effectiveType = "3g" /\ memory >= 2 /\ cores >= 2 THEN "medium"
     ELSE "low"

\* PerformanceUtils.adaptiveLoading(): the switch over getDeviceTier().
adaptiveLoading(nav) ==
  LET tier == getDeviceTier(nav)
  IN CASE tier = "high" ->
            [imageQuality |-> "high", animations |-> TRUE, preload |-> TRUE,
             lazyLoad |-> FALSE]
       [] tier = "medium" ->
            [imageQuality |-> "medium", animations |-> TRUE, preload |-> FALSE,
             lazyLoad |-> TRUE]
       [] tier = "low" ->
            [imageQuality |-> "low", animations |-> FALSE, preload |-> FALSE,
             lazyLoad |-> TRUE]

\* initializeAdaptiveLoading(): reads the tier, takes the settings and applies
\* them (animation durations set to 0ms, smaller images requested).
initializeAdaptiveLoading ==
  /\ adaptive.pc = "idle"
  /\ LET deviceTier == getDeviceTier(navigator)
         settings == adaptiveLoading(navigator)
     IN adaptive' = [pc |-> "done", deviceTier |-> deviceTier, settings |-> settings,
                     animationDuration |-> IF ~settings.animations THEN "0ms" ELSE "",
                     imagesReduced |-> settings.imageQuality = "low"]
  /\ UNCHANGED << cacheKeys, store, lifecycleVars, reqs, lastMsg, pageCall, navigator,
                  pageVars >>

\* ------------------------------------------------ page: ResponsiveManager
\* this.breakpoints
breakpoints == [mobile |-> 0, tablet |-> 768, desktop |-> 1024, large |-> 1440]

\* The wait of the debounced resize listener and the delay of the
\* orientationchange listener, in ms.
ResizeWait == 250
OrientationDelay == 100

\* window.innerWidth and window.innerHeight the browser can report.
Viewports ==
  { [w |-> 767, h |-> 1024], [w |-> 768, h |-> 1024], [w |-> 1023, h |-> 768],
    [w |-> 1024, h |-> 768], [w |-> 1439, h |-> 900], [w |-> 1440, h |-> 900] }

BreakpointNames == { "mobile", "tablet", "desktop", "large" }

\* `breakpoint-${this.currentBreakpoint}`
BreakpointClass(b) == "breakpoint-" \o b

\* The class tokens /breakpoint-\w+/g matches.
IsBreakpointClass(c) == \E b \in BreakpointNames : c = BreakpointClass(b)

BreakpointAbove(width) ==
  IF width > breakpoints.large THEN "large"
  ELSE IF width > breakpoints.desktop THEN "desktop"
  ELSE IF width > breakpoints.tablet THEN "tablet"
  ELSE "mobile"

\* The if-chain of detectBreakpoint.
BreakpointOf(width) ==
  IF width >= breakpoints.large THEN "large"
  ELSE IF width >= breakpoints.desktop THEN "desktop"
  ELSE IF width >= breakpoints.tablet THEN "tablet"
  ELSE "mobile"

\* updateResponsiveProperties(): the switch over this.currentBreakpoint.
updateResponsiveProperties(m) ==
  CASE m.currentBreakpoint = "mobile" -> [ m EXCEPT !.gridColumns = "1", !.menuHeight = "180px" ]
    [] m.currentBreakpoint = "tablet" -> [ m EXCEPT !.gridColumns = "2", !.menuHeight = "220px" ]
    [] m.currentBreakpoint = "desktop" -> [ m EXCEPT !.gridColumns = "3", !.menuHeight = "250px" ]
    [] m.currentBreakpoint = "large" -> [ m EXCEPT !.gridColumns = "4", !.menuHeight = "280px" ]
    [] OTHER -> m

\* updateLayout(): the breakpoint-* classes are cut out of body.className and
\* the class of the current breakpoint is added.
updateLayout(m) ==
  updateResponsiveProperties(
    [ m EXCEPT !.bodyClasses = { c \in @ : ~IsBreakpointClass(c) }
                                 \cup { BreakpointClass(m.currentBreakpoint) } ])

\* detectBreakpoint() with window.innerWidth = width.
detectBreakpoint(m, width) ==
  updateLayout([ m EXCEPT !.currentBreakpoint = BreakpointOf(width),
                          !.dataBreakpoint = BreakpointOf(width) ])

\* handleOrientationChange(): body gets landscape or portrait.
handleOrientationChange(m, v) ==
  [ m EXCEPT !.bodyClasses = IF v.w > v.h
                               THEN (@ \cup { "landscape" }) \ { "portrait" }
                               ELSE (@ \cup { "portrait" }) \ { "landscape" } ]

\* What a detectBreakpoint run adds to the history.
Detected(log, width) ==
  [ log EXCEPT !.detects = @ + 1, !.detectedWidth = width ]

ClearTimeoutNothing(timers, id) == timers

\* clearTimeout(id)
ClearTimeout(timers, id) == { t \in timers : t # id }

\* The times at which the pending timers are due.  Timers run when they are
\* due: before time moves on and before any event of the same instant.
PendingDue == rm.timers \cup rm.orientTimers \cup { t.due : t \in deb.timers }
DueNow == win.now \in PendingDue

\* DOMContentLoaded: new ResponsiveManager() runs init() (detectBreakpoint,
\* the listeners, touch detection, orientation classes), then body gets
\* responsive-enabled.
NewResponsiveManager ==
  /\ rm.pc = "none" /\ deb.pc = "none"
  /\ \E isTouch \in BOOLEAN :
       LET made == detectBreakpoint([ rm EXCEPT !.pc = "ready", !.currentBreakpoint = "mobile" ],
                                   win.viewport.w)
           touch == [ made EXCEPT !.bodyClasses =
                        @ \cup { IF isTouch THEN "touch-device" ELSE "mouse-device" } ]
           oriented == handleOrientationChange(touch, win.viewport)
       IN rm' = [ oriented EXCEPT !.bodyClasses = @ \cup { "responsive-enabled" } ]
  /\ resizeLog' = Detected(resizeLog, win.viewport.w)
  /\ UNCHANGED << workerVars, win, deb, mem, imgErr, lazy, retry, ls >>

\* Time passes since the manager or the debounced function was made, up to
\* the next pending timer.
Advance ==
  /\ rm.pc # "none" \/ deb.pc # "none"
  /\ \E d \in { 50 } :
       /\ win.now + d <= MaxAdvance * d
       /\ \A t \in PendingDue : win.now + d <= t
       /\ win' = [ win EXCEPT !.now = @ + d ]
  /\ UNCHANGED << workerVars, rm, resizeLog, deb, mem, imgErr, lazy, retry, ls >>

\* The window is resized and a resize event is dispatched: the debounced
\* listener clears its timer and sets a new one.
Resize ==
  /\ rm.pc = "ready" /\ ~DueNow
  /\ resizeLog.events < MaxResize
  /\ \E v \in Viewports : win' = [ win EXCEPT !.viewport = v ]
  /\ rm' = [ rm EXCEPT !.timers = ClearTimeout(@, rm.timeout) \cup { win.now + ResizeWait },
                       !.timeout = win.now + ResizeWait ]
  /\ resizeLog' = [ resizeLog EXCEPT
                      !.events = @ + 1, !.lastAt = win.now,
                      !.bursts = IF resizeLog.events = 0
                                    \/ win.now - resizeLog.lastAt >= ResizeWait
                                   THEN @ + 1 ELSE @ ]
  /\ UNCHANGED << workerVars, deb, mem, imgErr, lazy, retry, ls >>

\* A timer of the debounced resize listener fires: later() runs
\* detectBreakpoint.
ResizeTimer ==
  /\ \E t \in rm.timers :
       /\ t = win.now
       /\ rm' = detectBreakpoint([ rm EXCEPT !.timers = ClearTimeout(@ \ { t }, rm.timeout) ],
                                 win.viewport.w)
  /\ resizeLog' = [ Detected(resizeLog, win.viewport.w) EXCEPT
                      !.runs = Append(@, [at |-> win.now, lastEvent |-> resizeLog.lastAt]) ]
  /\ UNCHANGED << workerVars, win, deb, mem, imgErr, lazy, retry, ls >>

\* The device is rotated and an orientationchange event is dispatched: the
\* listener sets a timer of 100 ms.
OrientationChange ==
  /\ rm.pc = "ready" /\ ~DueNow
  /\ resizeLog.orients < MaxOrient
  /\ win' = [ win EXCEPT !.viewport = [w |-> win.viewport.h, h |-> win.viewport.w] ]
  /\ rm' = [ rm EXCEPT !.orientTimers = @ \cup { win.now + OrientationDelay } ]
  /\ resizeLog' = [ resizeLog EXCEPT !.orients = @ + 1 ]
  /\ UNCHANGED << workerVars, deb, mem, imgErr, lazy, retry, ls >>

\* The timer of the orientationchange listener fires: detectBreakpoint and
\* handleOrientationChange run.
OrientationTimer ==
  /\ \E t \in rm.orientTimers :
       /\ t = win.now
       /\ rm' = handleOrientationChange(
                  detectBreakpoint([ rm EXCEPT !.orientTimers = @ \ { t } ], win.viewport.w),
                  win.viewport)
  /\ resizeLog' = Detected(resizeLog, win.viewport.w)
  /\ UNCHANGED << workerVars, win, deb, mem, imgErr, lazy, retry, ls >>

\* ------------------------------------------------- page: MemoryManager
\* usedJSHeapSize the page can have, in MB of a limit of 100.
HeapSizes == { 50, 80, 81, 100 }

\* The methods the ImageOptimizer object has (isInViewport is a method of
\* PerformanceUtils).
ImageOptimizerMethods ==
  { "initLazyLoading", "fallbackLazyLoading", "preloadImages", "optimizeImageQuality" }

\* isMemoryHigh(): (memory.used / memory.limit) > 0.8, false without
\* performance.memory.
isMemoryHigh(m) == m.hasMemory /\ 10 * m.used > 8 * m.limit

\* cleanup(): with high memory, images.forEach calls
\* ImageOptimizer.isInViewport(img); calling a property that is undefined
\* throws a TypeError at the first image.
cleanup(m) ==
  LET called == [called |-> TRUE, high |-> isMemoryHigh(m), threw |-> FALSE,
                 before |-> m.images]
  IN IF ~isMemoryHigh(m) THEN [ m EXCEPT !.last = called ]
     ELSE IF "isInViewport" \in ImageOptimizerMethods
       THEN [ m EXCEPT !.last = called,
                       !.images = [ i \in PageImages |->
                                      IF ~m.images[i].inViewport
                                        THEN [ m.images[i] EXCEPT !.src = "" ]
                                        ELSE m.images[i] ] ]
     ELSE [ m EXCEPT !.last = [ called EXCEPT !.threw = PageImages # {} ] ]

\* The page's heap grows or shrinks.
HeapChange ==
  /\ \E used \in HeapSizes : used # mem.used /\ mem' = [ mem EXCEPT !.used = used ]
  /\ UNCHANGED << workerVars, respVars, imgErr, lazy, retry, ls >>

\* The user scrolls: an image enters or leaves the viewport.
ScrollImage ==
  /\ \E i \in PageImages : mem' = [ mem EXCEPT !.images[i].inViewport = ~@ ]
  /\ UNCHANGED << workerVars, respVars, imgErr, lazy, retry, ls >>

\* The 10-second interval of initializeMemoryManagement fires.
MemoryCheckInterval ==
  /\ isMemoryHigh(mem)
  /\ mem' = cleanup(mem)
  /\ UNCHANGED << workerVars, respVars, imgErr, lazy, retry, ls >>

\* The 30-second interval fires, or the page becomes hidden
\* (visibilitychange with document.hidden): MemoryManager.cleanup().
MemoryCleanup ==
  /\ mem' = cleanup(mem)
  /\ UNCHANGED << workerVars, respVars, imgErr, lazy, retry, ls >>

\* --------------------------------------- page: setupImageErrorHandling
\* img.src.includes('pexels.com') || img.src.includes('unsplash.com')
IsExternalImage(i) == i = "pexels"

\* if (img.dataset.errorHandled) return;
ListenerAdded(img) == ~img.errorHandled

\* setupImageErrorHandling(img)
setupImageErrorHandling(img, i) ==
  IF ListenerAdded(img)
    THEN [ img EXCEPT !.errorHandled = TRUE, !.listeners = @ + 1,
                      !.timer = @ \/ IsExternalImage(i) ]
    ELSE img

\* The error listeners of the image run for one error event: each builds a
\* fallback and calls img.parentNode.replaceChild(fallback, img), which throws
\* a TypeError when the image has no parent any more.
RECURSIVE ErrorListeners(_, _)
ErrorListeners(img, n) ==
  IF n = 0 THEN img
  ELSE ErrorListeners(
         IF img.inDocument
           THEN [ img EXCEPT !.inDocument = FALSE, !.fallbacks = @ + 1 ]
           ELSE [ img EXCEPT !.threw = @ + 1 ],
         n - 1)

ErrorEvent(img) == ErrorListeners([ img EXCEPT !.errors = @ + 1 ], img.listeners)

\* initializeImageErrorHandling(): every img of the document is set up and the
\* MutationObserver is started.
initializeImageErrorHandling ==
  /\ ~imgErr.observing
  /\ imgErr' = [ observing |-> TRUE,
                 img |-> [ i \in ErrorImages |->
                             IF imgErr.img[i].inDocument
                               THEN setupImageErrorHandling(imgErr.img[i], i)
                               ELSE imgErr.img[i] ] ]
  /\ UNCHANGED << workerVars, respVars, mem, lazy, retry, ls >>

\* An img is added to the document, or moved inside it: the MutationObserver
\* callback visits it.
ImageInserted ==
  /\ \E i \in ErrorImages :
       /\ imgErr.img[i].fallbacks = 0
       /\ imgErr' = [ imgErr EXCEPT !.img[i] =
                        IF imgErr.observing
                          THEN setupImageErrorHandling([ @ EXCEPT !.inDocument = TRUE ], i)
                          ELSE [ @ EXCEPT !.inDocument = TRUE ] ]
       /\ imgErr'  # imgErr
  /\ UNCHANGED << workerVars, respVars, mem, lazy, retry, ls >>

\* The image finishes loading: load event, or the native error event.
ImageLoaded ==
  /\ \E i \in ErrorImages, ok \in BOOLEAN :
       /\ imgErr.img[i].load = "loading"
       /\ imgErr' = [ imgErr EXCEPT !.img[i] =
                        IF ok THEN [ @ EXCEPT !.load = "loaded" ]
                        ELSE ErrorEvent([ @ EXCEPT !.load = "broken" ]) ]
  /\ UNCHANGED << workerVars, respVars, mem, lazy, retry, ls >>

\* The 5-second timer of an external image fires: an error event is
\* dispatched when !img.complete || !img.naturalHeight.
ImageTimeout ==
  /\ \E i \in ErrorImages :
       /\ imgErr.img[i].timer
       /\ imgErr' = [ imgErr EXCEPT !.img[i] =
                        IF @.load # "loaded"
                          THEN ErrorEvent([ @ EXCEPT !.timer = FALSE ])
                          ELSE [ @ EXCEPT !.timer = FALSE ] ]
  /\ UNCHANGED << workerVars, respVars, mem, lazy, retry, ls >>

\* ------------------------------------------------- page: lazy loading
\* img.dataset.src: undefined when the attribute is absent; assigned to
\* img.src, undefined becomes the string "undefined".
DatasetSrc(img) == IF img.hasDataSrc THEN img.dataSrc ELSE "undefined"

\* The element intersects the viewport (isIntersecting; also
\* img.offsetTop < window.innerHeight + scrollTop).
Intersects(img) == img.position \in { "partial", "inside" }

\* ResponsiveManager.loadImage(img)
loadImage(img) ==
  IF img.hasDataSrc /\ img.dataSrc # ""
    THEN [ img EXCEPT !.src = img.dataSrc, !.hasDataSrc = FALSE ]
    ELSE img

\* ResponsiveManager.lazyLoadOnScroll(): every img[data-src] that lies fully
\* in the viewport is loaded.
lazyLoadOnScroll(imgs) ==
  [ i \in LazyImages |->
      IF imgs[i].hasDataSrc /\ imgs[i].position = "inside"
        THEN loadImage(imgs[i]) ELSE imgs[i] ]

\* ImageOptimizer.initLazyLoading(): with IntersectionObserver every
\* img[data-src] is observed; without it fallbackLazyLoading keeps the list
\* of them, adds its listeners and calls lazyLoad(), which sets its timer.
initLazyLoading ==
  /\ lazy.loader = "none"
  /\ \E hasObserver \in BOOLEAN :
       lazy' = [ lazy EXCEPT
                  !.loader = IF hasObserver THEN "observer" ELSE "fallback",
                  !.timer = ~hasObserver,
                  !.img = [ i \in LazyImages |->
                              IF lazy.img[i].hasDataSrc
                                THEN [ lazy.img[i] EXCEPT !.observed = hasObserver,
                                                          !.listed = ~hasObserver ]
                                ELSE lazy.img[i] ] ]
  /\ UNCHANGED << workerVars, respVars, mem, imgErr, retry, ls >>

\* The user scrolls and the images move: the scroll listener of the
\* ResponsiveManager runs lazyLoadOnScroll, and the lazyLoad listener of the
\* fallback loader sets its timer again.
LazyScroll ==
  /\ \E positions \in [LazyImages -> Positions] :
       /\ \E i \in LazyImages : positions[i] # lazy.img[i].position
       /\ lazy' = [ lazy EXCEPT
                    !.timer = lazy.loader = "fallback",
                    !.img = lazyLoadOnScroll(
                              [ i \in LazyImages |->
                                  [ lazy.img[i] EXCEPT !.position = positions[i] ] ]) ]
  /\ UNCHANGED << workerVars, respVars, mem, imgErr, retry, ls >>

\* The IntersectionObserver callback runs for an observed image that
\* intersects: src is set from dataset.src and the image is unobserved.
LazyObserverCallback ==
  /\ \E i \in LazyImages :
       /\ lazy.img[i].observed /\ Intersects(lazy.img[i])
       /\ lazy' = [ lazy EXCEPT !.img[i] =
                      [ lazy.img[i] EXCEPT !.src = DatasetSrc(lazy.img[i]),
                                           !.observed = FALSE ] ]
  /\ UNCHANGED << workerVars, respVars, mem, imgErr, retry, ls >>

\* The 20 ms timer of the fallback loader fires: every listed image above
\* the window's bottom edge gets its src from dataset.src.
LazyFallbackTimer ==
  /\ lazy.timer
  /\ lazy' = [ lazy EXCEPT
                !.timer = FALSE,
                !.img = [ i \in LazyImages |->
                            IF lazy.img[i].listed /\ Intersects(lazy.img[i])
                              THEN [ lazy.img[i] EXCEPT !.src = DatasetSrc(lazy.img[i]) ]
                              ELSE lazy.img[i] ] ]
  /\ UNCHANGED << workerVars, respVars, mem, imgErr, retry, ls >>

\* ------------------------------------------ page: NetworkUtils.retryRequest
\* Math.pow(2, i)
RECURSIVE Pow2(_)
Pow2(i) == IF i = 0 THEN 1 ELSE 2 * Pow2(i - 1)

IsLastAttemptNever(i, maxRetries) == FALSE

\* i === maxRetries - 1
IsLastAttempt(i, maxRetries) == i = maxRetries - 1

\* The for loop at its test i < maxRetries: requestFn is called, or the loop
\* and the function end and the promise resolves with undefined.
LoopTest(r) ==
  IF r.i < r.maxRetries THEN [ r EXCEPT !.pc = "calling" ]
  ELSE [ r EXCEPT !.pc = "resolved", !.result = [kind |-> "undefined", attempt |-> 0] ]

\* retryRequest(requestFn, maxRetries, delay) is called, with a delay of 500
\* or 1000 ms.
retryRequest ==
  /\ retry.pc = "none"
  /\ \E maxRetries \in 0..MaxRetries, delay \in { 500, 1000 } :
       retry' = LoopTest([ retry EXCEPT !.maxRetries = maxRetries, !.delay = delay, !.i = 0 ])
  /\ UNCHANGED << workerVars, respVars, mem, imgErr, lazy, ls >>

\* await requestFn() fulfils: its value is returned.
RequestFulfils ==
  /\ retry.pc = "calling"
  /\ retry' = [ retry EXCEPT !.pc = "resolved",
                             !.outcomes = Append(@, [ok |-> TRUE, error |-> ""]),
                             !.result = [kind |-> "value", attempt |-> retry.i] ]
  /\ UNCHANGED << workerVars, respVars, mem, imgErr, lazy, ls >>

\* await requestFn() rejects with one of two errors: the catch block rethrows
\* on the last attempt and otherwise starts the timer of delay * 2^i.
RequestRejects ==
  /\ retry.pc = "calling"
  /\ \E error \in { "offline", "timeout" } :
       LET failed == [ retry EXCEPT !.outcomes = Append(@, [ok |-> FALSE, error |-> error]) ]
       IN retry' = IF IsLastAttempt(retry.i, retry.maxRetries)
                     THEN [ failed EXCEPT !.pc = "rejected",
                                          !.result = [kind |-> error, attempt |-> retry.i] ]
                     ELSE [ failed EXCEPT !.pc = "waiting",
                                          !.waits = Append(@, retry.delay * Pow2(retry.i)) ]
  /\ UNCHANGED << workerVars, respVars, mem, imgErr, lazy, ls >>

\* The timer fires: i++ and the loop test.
RetryTimer ==
  /\ retry.pc = "waiting"
  /\ retry' = LoopTest([ retry EXCEPT !.i = @ + 1 ])
  /\ UNCHANGED << workerVars, respVars, mem, imgErr, lazy, ls >>

\* ------------------------------------------------------ page: CacheManager
\* The values a caller passes to setWithExpiry.
CacheValues == { Js("string", 0, "burger"), Js("NaN", 0, "") }

\* Date.now() + ttl
Plus(now, ttl) ==
  CASE ttl.t = "number" -> Js("number", now + ttl.n, "")
    [] ttl.t = "Infinity" -> Js("Infinity", 0, "")
    [] OTHER -> Js("NaN", 0, "")

\* JSON.stringify of one property value: the JSON text of a string or a
\* finite number, null for NaN and Infinity, and nothing at all (the
\* property is left out) for undefined.
JsonText(v) ==
  CASE v.t = "string" -> "\"" \o v.s \o "\""
    [] v.t = "number" -> ToString(v.n)
    [] v.t = "undefined" -> ""
    [] OTHER -> "null"

\* JSON.parse of one property value written by JsonText.
JsonValue(text) ==
  IF text = "" THEN JsUndefined
  ELSE IF text = "null" THEN JsNull
  ELSE IF \E v \in CacheValues : v.t = "string" /\ text = JsonText(v)
    THEN CHOOSE v \in CacheValues : v.t = "string" /\ text = JsonText(v)
  ELSE CHOOSE v \in { Js("number", n, "") : n \in 0..(MaxClock + 2) } : text = JsonText(v)

\* Date.now() > expiry: null converts to 0, undefined to NaN.
GreaterThan(now, expiry) ==
  CASE expiry.t = "number" -> now > expiry.n
    [] expiry.t = "null" -> now > 0
    [] OTHER -> FALSE

\* key.startsWith('cache_')
StartsWithCache(key) == key \in { "cache_menu", "cache_cart" }

\* CacheManager.getWithExpiry(key) at time now: the items left and the result.
getWithExpiry(items, key, now) ==
  LET itemStr == items[key]
      item == [value |-> JsonValue(itemStr.value), expiry |-> JsonValue(itemStr.expiry)]
  IN IF ~itemStr.stored THEN [items |-> items, result |-> JsNull]
     ELSE IF GreaterThan(now, item.expiry)
       THEN [items |-> [ items EXCEPT ![key] = NoItem ], result |-> JsNull]
     ELSE [items |-> items, result |-> item.value]

\* Object.keys(localStorage).forEach(...) of clearExpired over the keys left.
RECURSIVE ClearKeys(_, _, _)
ClearKeys(items, keys, now) ==
  IF keys = {} THEN items
  ELSE LET key == CHOOSE k \in keys : TRUE
           after == IF StartsWithCache(key) THEN getWithExpiry(items, key, now).items
                    ELSE items
       IN ClearKeys(after, keys \ { key }, now)

\* CacheManager.setWithExpiry(key, value, ttl) with a ttl of 1 or Infinity:
\* JSON.stringify(item) is what localStorage keeps.
setWithExpiry ==
  \E key \in StorageKeys, value \in CacheValues,
     ttl \in { Js("number", 1, ""), Js("Infinity", 0, "") } :
    /\ ls' = [ ls EXCEPT
                !.items[key] = [stored |-> TRUE, value |-> JsonText(value),
                                expiry |-> JsonText(Plus(ls.now, ttl))],
                !.lastSet[key] = [set |-> TRUE, value |-> value, at |-> ls.now, ttl |-> ttl],
                !.call = [op |-> "set", key |-> key, result |-> JsUndefined] ]
    /\ UNCHANGED << workerVars, respVars, mem, imgErr, lazy, retry >>

\* A call of CacheManager.getWithExpiry(key).
CallGetWithExpiry ==
  \E key \in StorageKeys :
    LET got == getWithExpiry(ls.items, key, ls.now)
    IN /\ ls' = [ ls EXCEPT !.items = got.items,
                            !.call = [op |-> "get", key |-> key, result |-> got.result] ]
       /\ UNCHANGED << workerVars, respVars, mem, imgErr, lazy, retry >>

\* CacheManager.clearExpired()
clearExpired ==
  /\ ls' = [ ls EXCEPT
              !.items = ClearKeys(ls.items, { k \in StorageKeys : ls.items[k].stored }, ls.now),
              !.call = [op |-> "clearExpired", key |-> "", result |-> JsUndefined] ]
  /\ UNCHANGED << workerVars, respVars, mem, imgErr, lazy, retry >>

\* Time passes between two calls.
ClockTick ==
  /\ ls.now < MaxClock
  /\ ls' = [ ls EXCEPT !.now = @ + 1, !.call = NoCall ]
  /\ UNCHANGED << workerVars, respVars, mem, imgErr, lazy, retry >>

\* ---------------------------------------- page: PerformanceUtils.debounce

\* PerformanceUtils.debounce(func, wait, immediate) is called: let timeout.
\* The function shares nothing with the ResponsiveManager but the clock: a run
\* of the page exercises one of the two.
debounce ==
  /\ deb.pc = "none" /\ rm.pc = "none"
  /\ \E wait \in { 100, 250 }, immediate \in BOOLEAN :
       deb' = [ deb EXCEPT !.pc = "made", !.wait = wait, !.immediate = immediate ]
  /\ UNCHANGED << workerVars, win, rm, resizeLog, mem, imgErr, lazy, retry, ls >>

\* executedFunction(...args) is called.
executedFunction ==
  /\ deb.pc = "made" /\ ~DueNow
  /\ deb.calls < MaxCalls
  /\ \E args \in { "a", "b" } :
       LET callNow == deb.immediate /\ deb.timeout = NoTimer
           set == [due |-> win.now + deb.wait, args |-> args]
       IN deb' = [ deb EXCEPT
                    !.timers = ClearTimeout(@, deb.timeout) \cup { set },
                    !.timeout = set,
                    !.invoked = IF callNow THEN Append(@, [at |-> win.now, args |-> args,
                                                          lastCall |-> win.now,
                                                          lastArgs |-> args])
                                ELSE @,
                    !.calls = @ + 1, !.lastAt = win.now, !.lastArg = args,
                    !.bursts = IF deb.calls = 0 \/ win.now - deb.lastAt >= deb.wait
                                 THEN @ + 1 ELSE @ ]
  /\ UNCHANGED << workerVars, win, rm, resizeLog, mem, imgErr, lazy, retry, ls >>

\* A timer of the debounced function fires: later() runs.
later ==
  /\ \E t \in deb.timers :
       /\ t.due = win.now
       /\ deb' = [ deb EXCEPT
                    !.timers = @ \ { t },
                    !.timeout = NoTimer,
                    !.invoked = IF ~deb.immediate
                                  THEN Append(@, [at |-> win.now, args |-> t.args,
                                                  lastCall |-> deb.lastAt,
                                                  lastArgs |-> deb.lastArg])
                                  ELSE @ ]
  /\ UNCHANGED << workerVars, win, rm, resizeLog, mem, imgErr, lazy, retry, ls >>

\* ------------------------------------------------------------ specification
Next ==
  \/ InstallEvent
  \/ InstallOpenStatic
  \/ InstallAddStatic
  \/ InstallOpenDynamic
  \/ InstallAddExternal
  \/ InstallSkipWaiting
  \/ InstallCatch
  \/ InstallSettled
  \/ ActivateEvent
  \/ ActivateKeys
  \/ ActivateDelete
  \/ ActivateClaim
  \/ FetchEvent
  \/ MatchResolve
  \/ NetReject
  \/ NetRespond
  \/ WriteOpen
  \/ WriteDone
  \/ WriteFail

Spec == Init /\ [][Next]_vars

\* The worker with the pages also posting messages to it, and at most
\* MaxReqAll fetch events.
FetchEventAll == Dispatch(MaxReqAll)

NextAll ==
  \/ InstallEvent
  \/ InstallOpenStatic
  \/ InstallAddStatic
  \/ InstallOpenDynamic
  \/ InstallAddExternal
  \/ InstallSkipWaiting
  \/ InstallCatch
  \/ InstallSettled
  \/ ActivateEvent
  \/ ActivateKeys
  \/ ActivateDelete
  \/ ActivateClaim
  \/ MessageEvent
  \/ FetchEventAll
  \/ MatchResolve
  \/ NetReject
  \/ NetRespond
  \/ WriteOpen
  \/ WriteDone
  \/ WriteFail

SpecAll == Init /\ [][NextAll]_vars

\* The worker's install and activation with a page that calls
\* CacheManager.cacheAPI.set.
NextPage ==
  \/ InstallEvent
  \/ InstallOpenStatic
  \/ InstallAddStatic
  \/ InstallOpenDynamic
  \/ InstallAddExternal
  \/ InstallSkipWaiting
  \/ InstallCatch
  \/ InstallSettled
  \/ ActivateEvent
  \/ ActivateKeys
  \/ ActivateDelete
  \/ ActivateClaim
  \/ CacheAPISet
  \/ CacheAPIOpen
  \/ CacheAPIPut

SpecPage == Init /\ [][NextPage]_vars

\* The page's adaptive loading on every navigator.
InitTier ==
  /\ InitWorker /\ navigator \in Navigators /\ adaptive = NotRun
  /\ ResponsiveIdle /\ MemoryIdle /\ ImagesIdle /\ LazyIdle /\ RestIdle

NextTier == initializeAdaptiveLoading

SpecTier == InitTier /\ [][NextTier]_vars

\* The page's ResponsiveManager and a debounced function, under resizes,
\* rotations, calls and the passage of time.
InitResize ==
  /\ InitWorkerFrom("none") /\ TierIdle
  /\ win = WinStart
  /\ \E classes \in { {}, { "home" }, { "home", "breakpoint-large" } } : rm = NoManagerWith(classes)
  /\ resizeLog = NoResizes /\ deb = NoDebounce
  /\ MemoryIdle /\ ImagesIdle /\ LazyIdle /\ RestIdle

NextResize ==
  \/ NewResponsiveManager
  \/ Advance
  \/ Resize
  \/ ResizeTimer
  \/ OrientationChange
  \/ OrientationTimer
  \/ debounce
  \/ executedFunction
  \/ later

SpecResize == InitResize /\ [][NextResize]_vars

\* The page's memory management.
InitMemory ==
  /\ InitWorkerFrom("none") /\ TierIdle /\ ResponsiveIdle
  /\ \E hasMemory \in BOOLEAN, used \in HeapSizes, inside \in SUBSET PageImages :
       mem = MemoryWith(hasMemory, used, inside)
  /\ ImagesIdle /\ LazyIdle /\ RestIdle

NextMemory ==
  \/ HeapChange
  \/ ScrollImage
  \/ MemoryCheckInterval
  \/ MemoryCleanup

SpecMemory == InitMemory /\ [][NextMemory]_vars

\* The page's image error handling.
InitImages ==
  /\ InitWorkerFrom("none") /\ TierIdle /\ ResponsiveIdle /\ MemoryIdle
  /\ \E inDocument \in SUBSET ErrorImages : imgErr = ImagesAt(inDocument)
  /\ LazyIdle /\ RestIdle

NextImages ==
  \/ initializeImageErrorHandling
  \/ ImageInserted
  \/ ImageLoaded
  \/ ImageTimeout

SpecImages == InitImages /\ [][NextImages]_vars

\* The page's two lazy loaders.
InitLazy ==
  /\ InitWorkerFrom("none") /\ TierIdle /\ ResponsiveIdle /\ MemoryIdle /\ ImagesIdle
  /\ \E positions \in [LazyImages -> Positions] : lazy = LazyAt(positions)
  /\ RestIdle

NextLazy ==
  \/ initLazyLoading
  \/ LazyScroll
  \/ LazyObserverCallback
  \/ LazyFallbackTimer

SpecLazy == InitLazy /\ [][NextLazy]_vars

\* A call of NetworkUtils.retryRequest.
NextRetry ==
  \/ retryRequest
  \/ RequestFulfils
  \/ RequestRejects
  \/ RetryTimer

SpecRetry == Init /\ [][NextRetry]_vars

\* A page whose localStorage is empty.
InitStorage ==
  /\ InitWorkerFrom("none") /\ TierIdle /\ ResponsiveIdle /\ MemoryIdle /\ ImagesIdle
  /\ LazyIdle /\ RestIdle

\* Calls of CacheManager as time passes.
NextStorage ==
  \/ setWithExpiry
  \/ CallGetWithExpiry
  \/ clearExpired
  \/ ClockTick

SpecStorage == InitStorage /\ [][NextStorage]_vars

\* ------------------------------------------------------------------ claims
CurrentNames == { STATIC_CACHE, DYNAMIC_CACHE }
KeysOf(keys) == { keys[i] : i \in 1..Len(keys) }
Answered(e) == e.lookup \in { "hit", "miss" }

\* C1: if the fetch of any URL of the static asset list fails during install,
\* the promise handed to waitUntil does not fulfil (it rejects) and this
\* version of the worker is never installed, activating or activated.
C1_StaticFailureFailsInstall ==
  staticFetchFailed =>
    /\ installPromise # "fulfilled"
    /\ swState \notin { "installed", "activating", "activated" }

\* C2: no partial-success install: a fulfilled install leaves every static
\* asset in the static partition, and a failed static fetch means the install
\* did not fulfil and added nothing to the static partition.
C2_NoPartialInstall ==
  /\ installPromise = "fulfilled" =>
       \A u \in STATIC_ASSETS : store[STATIC_CACHE][u] # NoResp
  /\ staticFetchFailed =>
       /\ installPromise # "fulfilled"
       /\ store[STATIC_CACHE] = atInstall.store[STATIC_CACHE]

C4_ActivationPurgesStale ==
  swState = "activated" =>
    /\ KeysOf(cacheKeys) \subseteq CurrentNames
    /\ reqs = EmptyBag =>
         \A n \in CurrentNames :
           /\ Exists(n) <=> n \in KeysOf(atActivate.keys)
           /\ store[n] = atActivate.store[n]

\* Activation found the partitions of version 1 beside populated current
\* partitions and has completed.
C4_Witness ==
  /\ swState = "activated"
  /\ reqs = EmptyBag
  /\ { OLD_STATIC, OLD_DYNAMIC } \subseteq KeysOf(atActivate.keys)
  /\ atActivate.store[OLD_DYNAMIC]["./menu-item.jpg"] # NoResp
  /\ CurrentNames \subseteq KeysOf(cacheKeys)
  /\ store[STATIC_CACHE]["./rogers.html"] # NoResp
  /\ store[DYNAMIC_CACHE]["https://unpkg.com/react@17/umd/react.production.min.js"] # NoResp

\* C5: for a request whose method is not GET the handler calls neither
\* respondWith nor caches.match nor fetch and starts no cache write.
C5_NonGetNotIntercepted ==
  \A e \in Events :
    e.req.method # "GET" =>
      /\ ~e.respondWith /\ e.promise = "none"
      /\ e.lookups = 0 /\ e.lookup = "none"
      /\ e.fetches = 0 /\ e.net = "none"
      /\ e.write = "none"

\* A POST was dispatched while the dynamic partition held a runtime entry.
C5_Witness ==
  \E e, w \in Events :
    /\ e.req.method = "POST" /\ ~e.respondWith
    /\ w.write = "ok" /\ store[DYNAMIC_CACHE][w.req.url] # NoResp

\* C6: a GET whose URL has an entry in some partition when caches.match
\* resolves is answered with one of those entries and makes no network fetch;
\* a network fetch is made only after the lookup resolved with a miss.
C6_CacheFirst ==
  \A e \in Events :
    e.req.method = "GET" =>
      /\ e.entriesAtLookup # {} =>
           /\ e.lookup = "hit" /\ e.promise = "fulfilled"
           /\ e.resp \in e.entriesAtLookup
           /\ e.fetches = 0 /\ e.net = "none" /\ e.write = "none"
      /\ e.fetches > 0 \/ e.net # "none" =>
           e.lookup = "miss" /\ e.lookups = 1 /\ e.entriesAtLookup = {}

\* A same-origin GET answered from the static partition and a cross-origin GET
\* answered from the dynamic partition.
C6_Witness ==
  \E e1, e2 \in Events :
    /\ e1.req.same /\ e1.lookup = "hit" /\ e1.fetches = 0
    /\ e1.resp = store[STATIC_CACHE][e1.req.url]
    /\ ~e2.req.same /\ e2.lookup = "hit" /\ e2.fetches = 0
    /\ e2.resp = store[DYNAMIC_CACHE][e2.req.url]

\* C7: a cross-origin GET for an image whose network fetch rejected has its
\* response promise fulfilled with a response of status 404.
C7_ImageFallback ==
  \A e \in Events :
    ~e.req.same /\ e.req.dest = "image" /\ e.net = "rejected" =>
      /\ e.promise = "fulfilled"
      /\ e.resp.kind = "synthetic" /\ e.resp.status = 404

C7_Witness ==
  \E e \in Events :
    /\ ~e.req.same /\ e.req.dest = "image" /\ e.lookup = "miss"
    /\ e.net = "rejected" /\ e.resp.status = 404

\* C8: a same-origin GET whose network fetch rejected has its response promise
\* rejected, with no response value and no cache write.
C8_SameOriginFailurePropagates ==
  \A e \in Events :
    e.req.same /\ e.net = "rejected" =>
      /\ e.promise = "rejected"
      /\ e.resp = NoResp
      /\ e.write = "none"

C8_Witness ==
  \E e \in Events :
    e.req.same /\ e.lookup = "miss" /\ e.net = "rejected" /\ e.promise = "rejected"

\* C9: a cache write is started only for a network response of status 200; a
\* response of another status is returned as it is with no write; every entry
\* of the dynamic partition has status 200; the static partition is as it was
\* when activation began.
C9_OnlyStatus200Cached ==
  /\ \A e \in Events :
       /\ e.write # "none" => e.net = "responded" /\ e.netResp.status = 200
       /\ e.net = "responded" /\ e.netResp.status # 200 =>
            e.write = "none" /\ e.promise = "fulfilled" /\ e.resp = e.netResp
  /\ \A u \in URLs : store[DYNAMIC_CACHE][u] # NoResp => store[DYNAMIC_CACHE][u].status = 200
  /\ swState = "activated" => store[STATIC_CACHE] = atActivate.store[STATIC_CACHE]

\* A 404 was returned to the page and a 200 of another request was written.
C9_Witness ==
  \E e, w \in Events :
    /\ e.net = "responded" /\ e.netResp.status = 404 /\ e.resp = e.netResp
    /\ store[DYNAMIC_CACHE][e.req.url] = NoResp
    /\ w.write = "ok" /\ store[DYNAMIC_CACHE][w.req.url] = w.netResp

\* C10: whenever the network answered a miss with a 200, the response promise
\* is fulfilled with that response, whatever the state of the cache write.
C10_ResponseNotBehindWrite ==
  \A e \in Events :
    e.net = "responded" /\ e.netResp.status = 200 =>
      /\ e.write \in { "opening", "putting", "ok", "failed" }
      /\ e.promise = "fulfilled"
      /\ e.resp = e.netResp

\* One response delivered with its write still pending, another with its
\* write failed.
C10_Witness ==
  \E e1, e2 \in Events :
    /\ e1.netResp.status = 200 /\ e1.write = "putting" /\ e1.promise = "fulfilled"
    /\ e2.netResp.status = 200 /\ e2.write = "failed" /\ e2.promise = "fulfilled"

StaticKeys(st) == { u \in URLs : st[STATIC_CACHE][u] # NoResp }

\* C11: when a fetch of the cross-origin preload list failed, the install does
\* not fail: the waitUntil promise never rejects, it fulfils once the chain has
\* ended, the worker does not become redundant, and the static partition holds
\* every static asset.
C11_PreloadFailureTolerated ==
  externalFetchFailed =>
    /\ installPromise # "rejected"
    /\ swState # "redundant"
    /\ installPc = "settled" => installPromise = "fulfilled"
    /\ \A u \in STATIC_ASSETS : store[STATIC_CACHE][u] # NoResp

\* First install of this version: the preload failed and the worker is installed.
C11_Witness ==
  /\ externalFetchFailed
  /\ installPromise = "fulfilled"
  /\ swState = "installed"
  /\ STATIC_CACHE \notin KeysOf(atInstall.keys)
  /\ StaticKeys(store) = STATIC_ASSETS

\* C12: every install that has completed successfully has called skipWaiting,
\* also when the cross-origin preload failed.
C12_SkipWaitingBeforeInstalled ==
  installPromise = "fulfilled" => skipWaitingFlag

\* C13: clients.claim() is called during activation, so an activated worker
\* has claimed the pages; and once the pages are claimed no stale partition
\* exists and no delete is pending.
C13_ClaimAfterDeletes ==
  /\ swState = "activated" => claimed
  /\ claimed =>
       /\ toDelete = {}
       /\ KeysOf(cacheKeys) \subseteq CurrentNames
       /\ swState = "activated"

\* The pages are claimed after both partitions of version 1 were deleted.
C13_Witness ==
  /\ claimed
  /\ { OLD_STATIC, OLD_DYNAMIC } \subseteq KeysOf(atActivate.keys)
  /\ KeysOf(cacheKeys) \cap { OLD_STATIC, OLD_DYNAMIC } = {}

\* C14: when the install handler runs against a static partition that an
\* earlier install of this version populated, the partition keeps exactly one
\* entry per static asset URL, in every state from the install event on
\* (whether this install's fetches succeed or fail), and the partition exists
\* once under its name.
C14_InstallIdempotent ==
  /\ swState # "parsed"
  /\ STATIC_CACHE \in KeysOf(atInstall.keys)
  /\ StaticKeys(atInstall.store) = STATIC_ASSETS
  =>
  /\ StaticKeys(store) = STATIC_ASSETS
  /\ StaticKeys(store) = StaticKeys(atInstall.store)
  /\ Cardinality({ i \in 1..Len(cacheKeys) : cacheKeys[i] = STATIC_CACHE }) = 1

\* A second install of this version fetched every static asset again and
\* completed.
C14_Witness ==
  /\ STATIC_CACHE \in KeysOf(atInstall.keys)
  /\ StaticKeys(atInstall.store) = STATIC_ASSETS
  /\ ~staticFetchFailed
  /\ installPc = "settled"
  /\ installPromise = "fulfilled"
  /\ StaticKeys(store) = STATIC_ASSETS

\* The event whose cache.put of the URL completed last.
LastWriter(u) == CHOOSE x \in Writers(u) : \A y \in Writers(u) : y.writeSeq <= x.writeSeq

\* C15: two fetch events of one URL that both missed the cache and both got a
\* network response are both answered, each with its own response; and when
\* the cache.put of both has completed, the dynamic partition holds for that
\* URL the response of the event whose put completed last, and no partition
\* holds another entry for it.
C15_LastWriteWins ==
  \A e1, e2 \in Events :
    /\ e1.req.url = e2.req.url
    /\ e1.lookup = "miss" /\ e2.lookup = "miss"
    /\ e1.net = "responded" /\ e2.net = "responded"
    =>
    /\ e1.promise = "fulfilled" /\ e1.resp = e1.netResp
    /\ e2.promise = "fulfilled" /\ e2.resp = e2.netResp
    /\ e1.write = "ok" /\ e2.write = "ok" =>
         /\ store[DYNAMIC_CACHE][e1.req.url] = LastWriter(e1.req.url).netResp
         /\ Entries(e1.req.url) = { LastWriter(e1.req.url).netResp }

\* Two concurrent GETs of ./menu-item.jpg got different bodies; the put of the
\* one that got body 1 completed second, and body 1 is the entry.
C15_Witness ==
  \E e1, e2 \in Events :
    /\ e1.req.url = "./menu-item.jpg" /\ e2.req.url = "./menu-item.jpg"
    /\ e1.lookup = "miss" /\ e2.lookup = "miss"
    /\ e1.netResp = NetResp(200, 2) /\ e2.netResp = NetResp(200, 1)
    /\ e1.writeSeq = 1 /\ e2.writeSeq = 2
    /\ store[DYNAMIC_CACHE]["./menu-item.jpg"] = NetResp(200, 1)

Retrievable(st, n) == { u \in URLs : st[n][u] # NoResp }

\* C17: there is no entry-level eviction: no step of the install handler, of
\* the fetch interceptor or of the message handler (nor any other step) removes
\* a current partition or an entry of one, so the set of URLs retrievable from
\* the current static and dynamic partitions only grows.
C17_NoEntryEviction ==
  [][ \A n \in CurrentNames :
        /\ Exists(n) => n \in KeysOf(cacheKeys')
        /\ Retrievable(store, n) \subseteq Retrievable(store', n) ]_vars

\* The dynamic partition was preloaded by the install handler, the fetch
\* interceptor then added the cross-origin image to it, a message has been
\* handled, and the preloaded entry is still there next to the new one.
C17_Witness ==
  /\ ~externalFetchFailed /\ installPc = "settled"
  /\ lastMsg # NoMessage
  /\ \E e \in Events :
       /\ e.req.url = "https://images.example.com/dish.jpg" /\ e.write = "ok"
       /\ atActivate.store[DYNAMIC_CACHE][e.req.url] = NoResp
       /\ store[DYNAMIC_CACHE][e.req.url] # NoResp
  /\ \A u \in EXTERNAL_RESOURCES : store[DYNAMIC_CACHE][u] # NoResp

\* C18: every cache write of the program goes to the versioned static or the
\* versioned dynamic partition, so no entry the program wrote is deleted by an
\* activation of the same version: the entry that a completed
\* CacheManager.cacheAPI.set call stored stays retrievable from the partition
\* it was written to (stated for installs in which every fetch succeeded).
C18_ProgramWritesSurviveActivation ==
  ~staticFetchFailed /\ ~externalFetchFailed /\ pageCall.pc = "done" /\ pageCall.stored =>
    store[pageCall.cache][pageCall.key] # NoResp

\* C19: the message handler reacts to exactly two message types.  A step that
\* handles a message leaves every cache partition as it was and: for
\* 'SKIP_WAITING' calls skipWaiting once and posts no reply; for 'GET_VERSION'
\* with a reply port posts exactly one reply, { version: 'rogers-restaurant-v2' },
\* and does not call skipWaiting; for any other message does neither.
C19_MessageHandling ==
  [][ lastMsg' # lastMsg =>
        /\ cacheKeys' = cacheKeys /\ store' = store
        /\ lastMsg'.data = "SKIP_WAITING" =>
             /\ lastMsg'.skipWaitingCalls = 1 /\ skipWaitingFlag'
             /\ lastMsg'.replies = << >>
        /\ lastMsg'.data = "GET_VERSION" /\ lastMsg'.port =>
             /\ lastMsg'.replies = << [version |-> "rogers-restaurant-v2"] >>
             /\ lastMsg'.skipWaitingCalls = 0 /\ skipWaitingFlag' = skipWaitingFlag
        /\ lastMsg'.data \notin { "SKIP_WAITING", "GET_VERSION" } =>
             /\ lastMsg'.replies = << >>
             /\ lastMsg'.skipWaitingCalls = 0 /\ skipWaitingFlag' = skipWaitingFlag ]_vars

\* While the install chain had not reached its own skipWaiting call, a
\* 'SKIP_WAITING' message set the flag, and a 'GET_VERSION' message with a port
\* was then answered with the version; the partitions under construction exist.
C19_Witness ==
  /\ swState = "installing" /\ installPc = "addExternal"
  /\ skipWaitingFlag
  /\ lastMsg.data = "GET_VERSION" /\ lastMsg.port
  /\ lastMsg.replies = << [version |-> "rogers-restaurant-v2"] >>
  /\ lastMsg.skipWaitingCalls = 0
  /\ Exists(STATIC_CACHE) /\ Exists(DYNAMIC_CACHE)

\* C20: the tier follows the connection type as the guide states: every device
\* on 4g gets 'high' (high image quality, animations and preload on), every
\* device on 3g gets 'medium', only slower or unknown connections get 'low';
\* and adaptiveLoading returns the settings of the tier getDeviceTier reports.
C20_TierFollowsConnection ==
  adaptive.pc = "done" =>
    /\ navigator.effectiveType = "4g" =>
         /\ adaptive.deviceTier = "high"
         /\ adaptive.settings.imageQuality = "high"
         /\ adaptive.settings.animations /\ adaptive.settings.preload
    /\ navigator.effectiveType = "3g" => adaptive.deviceTier = "medium"
    /\ adaptive.deviceTier = "low" => navigator.effectiveType \notin { "4g", "3g" }
    /\ adaptive.settings.imageQuality = adaptive.deviceTier
    /\ adaptive.settings.animations = (adaptive.deviceTier # "low")
    /\ adaptive.settings.preload = (adaptive.deviceTier = "high")
    /\ adaptive.settings.lazyLoad = (adaptive.deviceTier # "high")

\* C24: a cross-origin GET that missed the cache, whose network fetch rejected
\* and whose destination is not 'image', has its response promise fulfilled
\* with undefined (not rejected, no synthetic response) and starts no cache
\* write.
C24_ExternalFailureYieldsUndefined ==
  \A e \in Events :
    /\ e.req.method = "GET" /\ ~e.req.same /\ e.req.dest # "image"
    /\ e.lookup = "miss" /\ e.net = "rejected"
    => /\ e.promise = "fulfilled"
       /\ e.resp = Undefined
       /\ e.write = "none" /\ e.writeSeq = 0

\* The preload of the external resources failed at install, so the GET of the
\* React script missed the cache; its fetch rejected and the promise fulfilled
\* with undefined, the dynamic partition still holding nothing for the URL.
C24_Witness ==
  \E e \in Events :
    /\ e.req.url = "https://unpkg.com/react@17/umd/react.production.min.js"
    /\ e.req.dest = "script" /\ ~e.req.same
    /\ e.lookup = "miss" /\ e.fetches = 1 /\ e.net = "rejected"
    /\ e.promise = "fulfilled" /\ e.resp = Undefined
    /\ store[DYNAMIC_CACHE][e.req.url] = NoResp

\* C21: once detectBreakpoint has run, for the window width w of its last run,
\* currentBreakpoint, data-breakpoint, the breakpoint-* class of body and
\* --grid-columns agree with w (mobile/1 below 768, tablet/2 below 1024,
\* desktop/3 below 1440, large/4 from 1440), and body carries exactly one
\* breakpoint-* class.
C21_BreakpointAgreesWithWidth ==
  resizeLog.detects > 0 =>
    LET w == resizeLog.detectedWidth
        name == IF w < 768 THEN "mobile" ELSE IF w < 1024 THEN "tablet"
                ELSE IF w < 1440 THEN "desktop" ELSE "large"
        columns == IF w < 768 THEN "1" ELSE IF w < 1024 THEN "2"
                   ELSE IF w < 1440 THEN "3" ELSE "4"
    IN /\ rm.currentBreakpoint = name
       /\ rm.dataBreakpoint = name
       /\ rm.gridColumns = columns
       /\ rm.bodyClasses \cap { "breakpoint-mobile", "breakpoint-tablet",
                                 "breakpoint-desktop", "breakpoint-large" }
            = { "breakpoint-" \o name }

\* The markup gave body a stale breakpoint-large class; the manager started on
\* a desktop width, the window was then resized to 768 and the debounced
\* listener ran: everything says tablet and the other classes of body are kept.
C21_Witness ==
  /\ resizeLog.detects >= 2 /\ Len(resizeLog.runs) >= 1
  /\ resizeLog.detectedWidth = 768 /\ win.viewport.w = 768
  /\ rm.currentBreakpoint = "tablet" /\ rm.gridColumns = "2"
  /\ "breakpoint-tablet" \in rm.bodyClasses
  /\ "breakpoint-large" \notin rm.bodyClasses /\ "breakpoint-desktop" \notin rm.bodyClasses
  /\ { "home", "responsive-enabled" } \subseteq rm.bodyClasses

\* The runs a debounced function has made for the bursts of its calls: one
\* per burst that is over, none for a burst that is still going on.
OncePerBurst(runs, bursts, calls, lastAt, wait) ==
  calls > 0 =>
    /\ win.now - lastAt < wait => runs = bursts - 1
    /\ win.now - lastAt > wait => runs = bursts
    /\ runs \in { bursts - 1, bursts }

C23_CleanupWhenMemoryHigh ==
  mem.last.called =>
    /\ ~mem.last.threw
    /\ \A i \in PageImages :
         mem.images[i].src =
           IF mem.last.high /\ ~mem.last.before[i].inViewport
             THEN "" ELSE mem.last.before[i].src

\* C25: under every ordering of an image's native error event and the error
\* event of its 5-second timeout, the image is replaced by a fallback at most
\* once, no run of the error listener fails, and the image has at most one
\* error listener however often it is visited.
C25_ImageReplacedOnceWithoutError ==
  \A i \in ErrorImages :
    /\ imgErr.img[i].fallbacks <= 1
    /\ imgErr.img[i].threw = 0
    /\ imgErr.img[i].listeners <= 1

\* C26: whichever of the IntersectionObserver loader (or its fallback) and the
\* scroll-driven loader processes an img[data-src] first, and when both do,
\* the image's src is only ever given its original data-src value, never
\* undefined or an empty value.
C26_LazySrcIsDataSrc ==
  \A i \in LazyImages :
    lazy.img[i].src \in { "placeholder.gif", OriginalDataSrc(i) }

\* C27: for maxRetries >= 1, retryRequest calls requestFn at most maxRetries
\* times and waits at most maxRetries - 1 times (so it ends once every call of
\* requestFn has settled); the wait after attempt i is delay * 2^i; it resolves
\* with the value of the first attempt that succeeded, no attempt following a
\* success; it rejects only after maxRetries failures, with the error of the
\* last one and no wait after it.
C27_RetryBackoff ==
  retry.pc # "none" /\ retry.maxRetries >= 1 =>
    LET done == Len(retry.outcomes)
        failures == { k \in 1..done : ~retry.outcomes[k].ok }
    IN /\ done <= retry.maxRetries
       /\ retry.pc = "calling" => done < retry.maxRetries /\ retry.i = done
       /\ \A k \in 1..done : retry.outcomes[k].ok => k = done /\ retry.pc = "resolved"
       /\ \A k \in 1..Len(retry.waits) :
            retry.waits[k] = retry.delay * 2 ^ (k - 1)
       /\ Len(retry.waits) =
            Cardinality(failures) - (IF retry.pc = "rejected" THEN 1 ELSE 0)
       /\ retry.pc = "resolved" =>
            /\ retry.outcomes[done].ok
            /\ retry.result = [kind |-> "value", attempt |-> done - 1]
       /\ retry.pc = "rejected" =>
            /\ done = retry.maxRetries /\ Cardinality(failures) = done
            /\ retry.result = [kind |-> retry.outcomes[done].error, attempt |-> done - 1]

\* With maxRetries 3 and delay 500 the first two attempts failed, the waits
\* were 500 and 1000 ms, and the third attempt's value was returned.
C27_Witness ==
  /\ retry.maxRetries = 3 /\ retry.delay = 500 /\ retry.pc = "resolved"
  /\ retry.waits = << 500, 1000 >>
  /\ Len(retry.outcomes) = 3 /\ retry.result = [kind |-> "value", attempt |-> 2]

\* The time is later than the store time plus ttl of the last setWithExpiry.
Expired(set, now) ==
  CASE set.ttl.t = "number" -> now > set.at + set.ttl.n
    [] OTHER -> FALSE

\* C28: getWithExpiry(key) returns the value of the most recent
\* setWithExpiry(key, value, ttl) while the time is not later than the store
\* time plus ttl; once it is later it returns null and the key is removed;
\* clearExpired removes exactly the expired keys that start with 'cache_' and
\* leaves every other key as it was.
C28_ExpiryRoundTrip ==
  [][ /\ \A key \in StorageKeys :
           ls'.call.op = "get" /\ ls'.call.key = key /\ ls.lastSet[key].set =>
             IF Expired(ls.lastSet[key], ls.now)
               THEN ls'.call.result = JsNull /\ ~ls'.items[key].stored
               ELSE ls'.call.result = ls.lastSet[key].value /\ ls'.items[key] = ls.items[key]
      /\ ls'.call.op = "clearExpired" =>
           \A key \in StorageKeys :
             IF /\ StartsWithCache(key) /\ ls.items[key].stored
                /\ Expired(ls.lastSet[key], ls.now)
               THEN ~ls'.items[key].stored
               ELSE ls'.items[key] = ls.items[key]
    ]_vars

====
